---------------------------- MODULE Spec2Model ----------------------------
(***************************************************************************)
(* A model of uw-stats: the miner (page locator, last-page resolution,     *)
(* linear and threaded fetch-and-save, fetch_new_pages, the command line)  *)
(* and the page loop of the scraper's construct_dataframe.                 *)
(*                                                                         *)
(* Python strings are sequences of one-character strings, compared by code *)
(* point as Python compares them.                                          *)
(***************************************************************************)
EXTENDS Integers, Sequences, FiniteSets, TLC

VARIABLES
    \* ---- pure-function harness (page locator, scraper and stats functions) ----
    fn,         \* the function applied last ("none" before any)
    fnArg,      \* the arguments drawn for a scraper or stats function
    fnBase,     \* the base url drawn for it
    fnPage,     \* the page number drawn for it
    fnUrl,      \* the url built / parsed
    fnRes,      \* the value returned
    \* ---- the miner ----
    lastPage,   \* environment: the thread's true last page on the server
    dir,        \* the working directory: file name -> content
    dir0,       \* the working directory as it was when the run began
    netlog,     \* every requests.get issued so far, in order
    todo,       \* the calls the entry point still has to make, in order
    pc,         \* position inside the call that is running
    base_url,   \* base_url argument of the running call
    pages,      \* pages argument of the running orchestrator call
    idx,        \* loop index of the running for-loop
    threads,    \* the list `threads` of fetch_and_save_pages_concurrently
    html,       \* local `html` of fetch_and_save in linear mode
    outcome,    \* how the entry point ended ("running" until then)
    entry,      \* which entry point was called, with its arguments
    \* ---- the scraper ----
    scFiles,    \* the html directory read by construct_dataframe
    scQueue,    \* the sorted file list still to be processed
    series_list,\* the records appended so far
    scPc,       \* position inside construct_dataframe
    \* ---- one pass of construct_dataframe's message loop ----
    block,      \* the message block as the page file holds it
    message,    \* the loop variable: the block in the parse tree, cleaned in place
    unmodified_message, \* the copy taken at the top of the loop body
    record,     \* the fields computed so far
    msgPc       \* position inside the loop body

fnVars == <<fn, fnArg, fnBase, fnPage, fnUrl, fnRes>>
minerVars == <<lastPage, dir, dir0, netlog, todo, pc, base_url, pages, idx,
               threads, html, outcome, entry>>
scVars == <<scFiles, scQueue, series_list, scPc>>
msgVars == <<block, message, unmodified_message, record, msgPc>>
vars == <<fnVars, minerVars, scVars, msgVars>>

---------------------------------------------------------------------------
(* Python str primitives                                                   *)

Digits == <<"0", "1", "2", "3", "4", "5", "6", "7", "8", "9">>

\* str.isdigit() on one character
IsDigit(c) == \E d \in 1..10 : Digits[d] = c

DigitVal(c) == (CHOOSE d \in 1..10 : Digits[d] = c) - 1

\* ord(c) for the characters that occur in urls and file names
Ord(c) ==
    CASE c = "-" -> 45
      [] c = "." -> 46
      [] c = "/" -> 47
      [] IsDigit(c) -> 48 + DigitVal(c)
      [] c = "_" -> 95
      [] c = "a" -> 97
      [] c = "e" -> 101
      [] c = "g" -> 103
      [] c = "h" -> 104
      [] c = "l" -> 108
      [] c = "m" -> 109
      [] c = "p" -> 112
      [] c = "t" -> 116
      [] c = "u" -> 117

\* str < str: the first differing character decides, a proper prefix is less
RECURSIVE StrLess(_, _)
StrLess(s, t) ==
    IF s = <<>> THEN t # <<>>
    ELSE IF t = <<>> THEN FALSE
    ELSE IF Head(s) = Head(t) THEN StrLess(Tail(s), Tail(t))
    ELSE Ord(Head(s)) < Ord(Head(t))

\* str(n) for n >= 0
RECURSIVE Str(_)
Str(n) ==
    IF n < 10 THEN <<Digits[n + 1]>>
    ELSE Str(n \div 10) \o <<Digits[(n % 10) + 1]>>

\* int(s) for a string of decimal digits; int("") raises ValueError
RECURSIVE IntOfDigits(_)
IntOfDigits(s) ==
    IF s = <<>> THEN 0
    ELSE 10 * IntOfDigits(SubSeq(s, 1, Len(s) - 1)) + DigitVal(s[Len(s)])

int(s) == IF s = <<>> THEN "ValueError" ELSE IntOfDigits(s)

\* s[::-1]
RECURSIVE Reversed(_)
Reversed(s) == IF s = <<>> THEN <<>> ELSE Reversed(Tail(s)) \o <<Head(s)>>

\* str.zfill(width)
RECURSIVE ZFill(_, _)
ZFill(s, width) == IF Len(s) >= width THEN s ELSE ZFill(<<"0">> \o s, width)

\* re.findall(r"\d+", s)[0]: the first maximal run of digits of s
RECURSIVE DigitRun(_)
DigitRun(s) ==
    IF s = <<>> \/ ~IsDigit(Head(s)) THEN <<>>
    ELSE <<Head(s)>> \o DigitRun(Tail(s))

RECURSIVE FirstDigits(_)
FirstDigits(s) ==
    IF s = <<>> THEN "IndexError"
    ELSE IF IsDigit(Head(s)) THEN DigitRun(s)
    ELSE FirstDigits(Tail(s))

---------------------------------------------------------------------------
(* miner.py: the page locator                                              *)

\* default of the `max` parameter of get_last_page and get_page_from_url
MaxPageProbe == 1000000

\* get_url_for_page(base_url, page_num) = base_url + f"page-{page_num}/"
get_url_for_page(base, page_num) ==
    base \o <<"p", "a", "g", "e", "-">> \o Str(page_num) \o <<"/">>

\* the loop of get_page_from_url: for i in range(1, max), reading url[-i]
RECURSIVE ScanBack(_, _, _)
ScanBack(url, i, num) ==
    IF i >= MaxPageProbe THEN int(Reversed(num))
    ELSE IF i > Len(url) THEN "IndexError"
    ELSE IF ~IsDigit(url[Len(url) + 1 - i]) THEN int(Reversed(num))
    ELSE ScanBack(url, i + 1, num \o <<url[Len(url) + 1 - i]>>)

get_page_from_url(url) ==
    IF url = <<>> THEN "IndexError"
    ELSE IF url[Len(url)] = "/" THEN 1
    ELSE ScanBack(url, 1, <<>>)

\* requests.get(url).url of get_last_page: the address the forum redirects an
\* over-large page number to, its last page; page 1 carries no page indicator
ResolvedUrl(base, last) ==
    IF last = 1 THEN base
    ELSE base \o <<"p", "a", "g", "e", "-">> \o Str(last)

---------------------------------------------------------------------------
(* The page locator applied to drawn inputs                                *)

MaxLocPage == 12

Bases ==
    { <<"t", "/">>,
      <<"t", ".", "7", "/">>,
      <<"u", "/", "9", "/">> }

MinerIdle ==
    /\ lastPage = 1
    /\ dir = <<>>
    /\ dir0 = <<>>
    /\ netlog = <<>>
    /\ todo = <<>>
    /\ pc = "exit"
    /\ base_url = <<>>
    /\ pages = <<>>
    /\ idx = 1
    /\ threads = <<>>
    /\ html = <<>>
    /\ outcome = "none"
    /\ entry = [kind |-> "none"]

ScraperIdle ==
    /\ scFiles = <<>>
    /\ scQueue = <<>>
    /\ series_list = <<>>
    /\ scPc = "none"

MsgIdle ==
    /\ block = <<>>
    /\ message = <<>>
    /\ unmodified_message = <<>>
    /\ record = <<>>
    /\ msgPc = "none"

FnIdle ==
    /\ fn = "none"
    /\ fnArg = <<>>
    /\ fnBase = <<>>
    /\ fnPage = 1
    /\ fnUrl = <<>>
    /\ fnRes = 0

InitLocator ==
    /\ fn = "none"
    /\ fnArg = <<>>
    /\ fnBase \in Bases
    /\ fnPage \in 1..MaxLocPage
    /\ fnUrl = <<>>
    /\ fnRes = 0
    /\ MinerIdle
    /\ ScraperIdle
    /\ MsgIdle

\* url = get_url_for_page(base, n)
BuildUrl ==
    /\ fn = "none"
    /\ fn' = "get_url_for_page"
    /\ fnUrl' = get_url_for_page(fnBase, fnPage)
    /\ fnRes' = fnRes
    /\ UNCHANGED <<fnArg, fnBase, fnPage, minerVars, scVars, msgVars>>

\* get_page_from_url(url) on the url just built
ParseBuilt ==
    /\ fn = "get_url_for_page"
    /\ fn' = "get_page_from_url"
    /\ fnRes' = get_page_from_url(fnUrl)
    /\ UNCHANGED <<fnArg, fnBase, fnPage, fnUrl, minerVars, scVars, msgVars>>

\* get_page_from_url on the address a last-page probe resolves to
ParseResolved ==
    /\ fn = "none"
    /\ fn' = "get_last_page"
    /\ fnUrl' = ResolvedUrl(fnBase, fnPage)
    /\ fnRes' = get_page_from_url(ResolvedUrl(fnBase, fnPage))
    /\ UNCHANGED <<fnArg, fnBase, fnPage, minerVars, scVars, msgVars>>

NextLocator == BuildUrl \/ ParseBuilt \/ ParseResolved

SpecLocator == InitLocator /\ [][NextLocator]_vars

\* C1: for every normalized base address and every page number n >= 1,
\* get_page_from_url(get_url_for_page(base, n)) returns n.
C1_RoundTrip == fn = "get_page_from_url" => fnRes = fnPage

\* What the code does hold: the address a last-page probe resolves to parses
\* back to the last page, and every address built by get_url_for_page parses to 1.
LocatorResolvedParses == fn = "get_last_page" => fnRes = fnPage

LocatorBuiltParsesToOne == fn = "get_page_from_url" => fnRes = 1

---------------------------------------------------------------------------
(* miner.py: files, the server, the orchestrators                          *)

\* width of the zero padding in save_page
ZFillWidth == 4

\* the file name with page_num left at its default of 1
FileNameDefault(page_num) ==
    <<"p", "a", "g", "e", "_">> \o ZFill(Str(1), ZFillWidth)
        \o <<".", "h", "t", "m", "l">>

\* save_page: f"page_{str(page_num).zfill(4)}.html"
FileName(page_num) ==
    <<"p", "a", "g", "e", "_">> \o ZFill(Str(page_num), ZFillWidth)
        \o <<".", "h", "t", "m", "l">>

\* response.text of the request for a page: the server's body of that page
Body(page_num) == <<"html", page_num>>

\* a file left by an earlier run
OldBody(page_num) == <<"old", page_num>>

\* open(file_path, mode="w"): the file exists and is empty
OpenForWrite(d, name) ==
    [n \in DOMAIN d \cup {name} |-> IF n = name THEN <<>> ELSE d[n]]

\* fp.write(html) and the close of the with-block
WriteFile(d, name, text) ==
    [n \in DOMAIN d \cup {name} |-> IF n = name THEN text ELSE d[n]]

\* range(a, b + 1)
Range(a, b) == [k \in 1..(b - a + 1) |-> a + k - 1]

\* sorted([i for i in working_dir.iterdir() if i.is_file()])[-1]
LastSorted(names) ==
    CHOOSE n \in names : \A m \in names : m = n \/ StrLess(m, n)

\* int(re.findall(r"\d+", last_available_page_path.name)[0])
last_available_page(d) == int(FirstDigits(LastSorted(DOMAIN d)))

\* one requests.get as the log records it
Request(f, url, ok) == [fn |-> f, url |-> url, ok |-> ok]

\* url requested by get_last_page
ProbeUrl(base) == get_url_for_page(base, MaxPageProbe)

\* return value of get_last_page when its request succeeds
get_last_page(base) == get_page_from_url(ResolvedUrl(base, lastPage))

\* an uncaught exception ends the run
Raise(exc) ==
    /\ outcome' = exc
    /\ pc' = "exit"
    /\ todo' = <<>>

\* a call returns to the entry point, which makes its next call or ends
Return ==
    /\ todo' = Tail(todo)
    /\ pc' = IF Tail(todo) = <<>> THEN "exit" ELSE "idle"
    /\ outcome' = IF Tail(todo) = <<>> THEN "ok" ELSE outcome

\* __main__: the url is given a trailing slash, then the calls the flags select
MainCalls(threaded, only_new_pages) ==
    IF threaded
    THEN IF only_new_pages
         THEN <<"fetch_new_pages", "report">>
         ELSE <<"fetch_and_save_all_pages_concurrently", "report">>
    ELSE IF only_new_pages
         THEN <<"fetch_new_pages", "fetch_and_save_all_pages_linearly",
                "report">>
         ELSE <<"fetch_and_save_all_pages_linearly", "report">>

Main ==
    /\ pc = "main"
    /\ base_url' = IF entry.url[Len(entry.url)] = "/" THEN entry.url
                   ELSE entry.url \o <<"/">>
    /\ todo' = MainCalls(entry.threaded, entry.only_new_pages)
    /\ pc' = "idle"
    /\ UNCHANGED <<lastPage, dir, dir0, netlog, pages, idx, threads, html,
                   outcome, entry, fnVars, scVars, msgVars>>

\* fetch_new_pages resolving the last page before it inspects the directory
FetchNewPagesProbeFirst ==
    /\ pc = "idle"
    /\ Head(todo) = "fetch_new_pages"
    /\ \E ok \in BOOLEAN :
        /\ netlog' = Append(netlog,
                            Request("get_last_page", ProbeUrl(base_url), ok))
        /\ IF ~ok
           THEN /\ Raise("RequestException")
                /\ UNCHANGED <<pages, idx, threads>>
           ELSE IF DOMAIN dir = {}
           THEN /\ Raise("ValueError")
                /\ UNCHANGED <<pages, idx, threads>>
           ELSE /\ pages' = Range(last_available_page(dir),
                                  get_last_page(base_url))
                /\ pc' = "spawn"
                /\ idx' = 1
                /\ threads' = <<>>
                /\ UNCHANGED <<todo, outcome>>
    /\ UNCHANGED <<lastPage, dir, dir0, base_url, html, entry, fnVars, scVars,
                   msgVars>>

\* fetch_new_pages up to its call of fetch_and_save_pages_concurrently
FetchNewPages ==
    /\ pc = "idle"
    /\ Head(todo) = "fetch_new_pages"
    /\ IF DOMAIN dir = {}
       THEN /\ Raise("ValueError")
            /\ UNCHANGED <<netlog, pages, idx, threads>>
       ELSE \E ok \in BOOLEAN :
            /\ netlog' = Append(netlog,
                                Request("get_last_page", ProbeUrl(base_url), ok))
            /\ IF ok
               THEN /\ pages' = Range(last_available_page(dir),
                                      get_last_page(base_url))
                    /\ pc' = "spawn"
                    /\ idx' = 1
                    /\ threads' = <<>>
                    /\ UNCHANGED <<todo, outcome>>
               ELSE /\ Raise("RequestException")
                    /\ UNCHANGED <<pages, idx, threads>>
    /\ UNCHANGED <<lastPage, dir, dir0, base_url, html, entry, fnVars, scVars,
                   msgVars>>

\* fetch_and_save_all_pages_concurrently up to its call of the orchestrator
FetchAllConcurrently ==
    /\ pc = "idle"
    /\ Head(todo) = "fetch_and_save_all_pages_concurrently"
    /\ \E ok \in BOOLEAN :
        /\ netlog' = Append(netlog,
                            Request("get_last_page", ProbeUrl(base_url), ok))
        /\ IF ok
           THEN /\ pages' = Range(1, get_last_page(base_url))
                /\ pc' = "spawn"
                /\ idx' = 1
                /\ threads' = <<>>
                /\ UNCHANGED <<todo, outcome>>
           ELSE /\ Raise("RequestException")
                /\ UNCHANGED <<pages, idx, threads>>
    /\ UNCHANGED <<lastPage, dir, dir0, base_url, html, entry, fnVars, scVars,
                   msgVars>>

\* fetch_and_save_all_pages_linearly up to its call of the orchestrator
FetchAllLinearly ==
    /\ pc = "idle"
    /\ Head(todo) = "fetch_and_save_all_pages_linearly"
    /\ \E ok \in BOOLEAN :
        /\ netlog' = Append(netlog,
                            Request("get_last_page", ProbeUrl(base_url), ok))
        /\ IF ok
           THEN /\ pages' = Range(1, get_last_page(base_url))
                /\ pc' = "linear"
                /\ idx' = 1
                /\ UNCHANGED <<todo, outcome>>
           ELSE /\ Raise("RequestException")
                /\ UNCHANGED <<pages, idx>>
    /\ UNCHANGED <<lastPage, dir, dir0, base_url, threads, html, entry,
                   fnVars, scVars, msgVars>>

\* a direct call of fetch_and_save_pages_concurrently(base_url, pages, dir)
CallPagesConcurrently ==
    /\ pc = "idle"
    /\ Head(todo) = "fetch_and_save_pages_concurrently"
    /\ pages' = entry.pages
    /\ pc' = "spawn"
    /\ idx' = 1
    /\ threads' = <<>>
    /\ UNCHANGED <<lastPage, dir, dir0, netlog, todo, base_url, html,
                   outcome, entry, fnVars, scVars, msgVars>>

\* a direct call of fetch_and_save_pages_linearly(base_url, pages, dir)
CallPagesLinearly ==
    /\ pc = "idle"
    /\ Head(todo) = "fetch_and_save_pages_linearly"
    /\ pages' = entry.pages
    /\ pc' = "linear"
    /\ idx' = 1
    /\ UNCHANGED <<lastPage, dir, dir0, netlog, todo, base_url, threads,
                   html, outcome, entry, fnVars, scVars, msgVars>>

\* the start loop with every thread reading the loop variable late: all
\* threads get the last page of the selection
StartThreadLateBinding ==
    /\ pc = "spawn"
    /\ idx <= Len(pages)
    /\ threads' = Append(threads,
                         [page |-> pages[Len(pages)],
                          url |-> get_url_for_page(base_url, pages[Len(pages)]),
                          st |-> "started",
                          html |-> <<>>])
    /\ idx' = idx + 1
    /\ UNCHANGED <<lastPage, dir, dir0, netlog, todo, pc, base_url, pages,
                   html, outcome, entry, fnVars, scVars, msgVars>>

\* one pass of `for page in pages`: Thread(...), thread.start(), append
StartThread ==
    /\ pc = "spawn"
    /\ idx <= Len(pages)
    /\ threads' = Append(threads,
                         [page |-> pages[idx],
                          url |-> get_url_for_page(base_url, pages[idx]),
                          st |-> "started",
                          html |-> <<>>])
    /\ idx' = idx + 1
    /\ UNCHANGED <<lastPage, dir, dir0, netlog, todo, pc, base_url, pages,
                   html, outcome, entry, fnVars, scVars, msgVars>>

\* the start loop is exhausted; the join loop begins
BeginJoin ==
    /\ pc = "spawn"
    /\ idx > Len(pages)
    /\ pc' = "join"
    /\ idx' = 1
    /\ UNCHANGED <<lastPage, dir, dir0, netlog, todo, base_url, pages,
                   threads, html, outcome, entry, fnVars, scVars, msgVars>>

\* a thread runs fetch_page(url); a failed request raises inside the thread,
\* which ends it (threading prints the traceback)
ThreadFetch(t) ==
    /\ threads[t].st = "started"
    /\ \E ok \in BOOLEAN :
        /\ netlog' = Append(netlog, Request("fetch_page", threads[t].url, ok))
        /\ threads' = [threads EXCEPT
                         ![t].st = IF ok THEN "fetched" ELSE "raised",
                         ![t].html = IF ok THEN Body(threads[t].page)
                                     ELSE <<>>]
    /\ UNCHANGED <<lastPage, dir, dir0, todo, pc, base_url, pages, idx, html,
                   outcome, entry, fnVars, scVars, msgVars>>

\* a thread enters save_page: open(file_path, mode="w")
ThreadOpen(t) ==
    /\ threads[t].st = "fetched"
    /\ dir' = OpenForWrite(dir, FileName(threads[t].page))
    /\ threads' = [threads EXCEPT ![t].st = "opened"]
    /\ UNCHANGED <<lastPage, dir0, netlog, todo, pc, base_url, pages, idx,
                   html, outcome, entry, fnVars, scVars, msgVars>>

\* a thread writes and closes the file, and its target returns
ThreadWrite(t) ==
    /\ threads[t].st = "opened"
    /\ dir' = WriteFile(dir, FileName(threads[t].page), threads[t].html)
    /\ threads' = [threads EXCEPT ![t].st = "done"]
    /\ UNCHANGED <<lastPage, dir0, netlog, todo, pc, base_url, pages, idx,
                   html, outcome, entry, fnVars, scVars, msgVars>>

ThreadStep ==
    \E t \in 1..Len(threads) :
        ThreadFetch(t) \/ ThreadOpen(t) \/ ThreadWrite(t)

\* the join loop passing over a thread without waiting for it
JoinThreadNoWait ==
    /\ pc = "join"
    /\ idx <= Len(threads)
    /\ idx' = idx + 1
    /\ UNCHANGED <<lastPage, dir, dir0, netlog, todo, pc, base_url, pages,
                   threads, html, outcome, entry, fnVars, scVars, msgVars>>

\* one pass of `for thread in threads: thread.join()`
JoinThread ==
    /\ pc = "join"
    /\ idx <= Len(threads)
    /\ threads[idx].st \in {"done", "raised"}
    /\ idx' = idx + 1
    /\ UNCHANGED <<lastPage, dir, dir0, netlog, todo, pc, base_url, pages,
                   threads, html, outcome, entry, fnVars, scVars, msgVars>>

\* fetch_and_save_pages_concurrently returns None
ReturnConcurrent ==
    /\ pc = "join"
    /\ idx > Len(threads)
    /\ Return
    /\ UNCHANGED <<lastPage, dir, dir0, netlog, base_url, pages, idx,
                   threads, html, entry, fnVars, scVars, msgVars>>

\* linear mode, fetch_and_save: html = fetch_page(url)
LinearFetch ==
    /\ pc = "linear"
    /\ idx <= Len(pages)
    /\ \E ok \in BOOLEAN :
        /\ netlog' = Append(netlog,
               Request("fetch_page", get_url_for_page(base_url, pages[idx]), ok))
        /\ IF ok
           THEN /\ html' = Body(pages[idx])
                /\ pc' = "linear_open"
                /\ UNCHANGED <<todo, outcome>>
           ELSE /\ Raise("RequestException")
                /\ html' = html
    /\ UNCHANGED <<lastPage, dir, dir0, base_url, pages, idx, threads, entry,
                   fnVars, scVars, msgVars>>

\* linear mode, save_page: open(file_path, mode="w")
LinearOpen ==
    /\ pc = "linear_open"
    /\ dir' = OpenForWrite(dir, FileName(pages[idx]))
    /\ pc' = "linear_write"
    /\ UNCHANGED <<lastPage, dir0, netlog, todo, base_url, pages, idx,
                   threads, html, outcome, entry, fnVars, scVars, msgVars>>

\* linear mode moving to the next page with the write still unflushed
LinearWriteUnflushed ==
    /\ pc = "linear_write"
    /\ pc' = "linear"
    /\ idx' = idx + 1
    /\ UNCHANGED <<lastPage, dir, dir0, netlog, todo, base_url, pages,
                   threads, html, outcome, entry, fnVars, scVars, msgVars>>

\* linear mode, save_page: write and close; the loop moves to the next page
LinearWrite ==
    /\ pc = "linear_write"
    /\ dir' = WriteFile(dir, FileName(pages[idx]), html)
    /\ pc' = "linear"
    /\ idx' = idx + 1
    /\ UNCHANGED <<lastPage, dir0, netlog, todo, base_url, pages, threads,
                   html, outcome, entry, fnVars, scVars, msgVars>>

\* fetch_and_save_pages_linearly returns None
ReturnLinear ==
    /\ pc = "linear"
    /\ idx > Len(pages)
    /\ Return
    /\ UNCHANGED <<lastPage, dir, dir0, netlog, base_url, pages, idx,
                   threads, html, entry, fnVars, scVars, msgVars>>

\* __main__: the closing print calls miner.get_last_page(args.url)
Report ==
    /\ pc = "idle"
    /\ Head(todo) = "report"
    /\ \E ok \in BOOLEAN :
        /\ netlog' = Append(netlog,
                            Request("get_last_page", ProbeUrl(base_url), ok))
        /\ IF ok THEN Return ELSE Raise("RequestException")
    /\ UNCHANGED <<lastPage, dir, dir0, base_url, pages, idx, threads, html,
                   entry, fnVars, scVars, msgVars>>

---------------------------------------------------------------------------
(* The runs of the miner that are explored                                 *)

\* the largest last page of a small thread
MaxLastPage == 2

\* the longest explicit page selection passed to an orchestrator
MaxSel == 2

\* how far the sampled page numbers reach around 1 and around 10^ZFillWidth
Span == 1

\* how many pages a thread has grown by since the directory was written
MaxNew == 1

RECURSIVE Pow10(_)
Pow10(k) == IF k = 0 THEN 1 ELSE 10 * Pow10(k - 1)

\* the first page number whose decimal form is wider than the padding
Rollover == Pow10(ZFillWidth)

BaseT == <<"t", ".", "7", "/">>

\* a directory holding the files an earlier run saved for the pages of S
OldDir(S) ==
    [n \in {FileName(p) : p \in S} |->
        OldBody(CHOOSE p \in S : FileName(p) = n)]

Selections == UNION {[1..n -> 1..MaxLastPage] : n \in 0..MaxSel}

CliEntries ==
    [kind : {"cli"},
     url : {BaseT, SubSeq(BaseT, 1, Len(BaseT) - 1)},
     threaded : BOOLEAN,
     only_new_pages : BOOLEAN,
     pages : {<<>>}]

ApiEntries ==
    [kind : {"fetch_and_save_pages_concurrently",
             "fetch_and_save_pages_linearly"},
     url : {BaseT},
     threaded : {TRUE},
     only_new_pages : {FALSE},
     pages : Selections]

NewEntry ==
    [kind |-> "fetch_new_pages", url |-> BaseT, threaded |-> TRUE,
     only_new_pages |-> TRUE, pages |-> <<>>]

InitRun(e, last, S) ==
    /\ entry = e
    /\ lastPage = last
    /\ dir = OldDir(S)
    /\ dir0 = OldDir(S)
    /\ netlog = <<>>
    /\ todo = IF e.kind = "cli" THEN <<>> ELSE <<e.kind>>
    /\ pc = IF e.kind = "cli" THEN "main" ELSE "idle"
    /\ base_url = IF e.kind = "cli" THEN <<>> ELSE e.url
    /\ pages = <<>>
    /\ idx = 1
    /\ threads = <<>>
    /\ html = <<>>
    /\ outcome = "running"
    /\ FnIdle
    /\ ScraperIdle
    /\ MsgIdle

\* a small thread and any directory of its pages: the command line and
\* fetch_new_pages on a thread of any length, the orchestrators with an
\* explicit selection (they never ask for the last page)
InitSmall ==
    \E S \in SUBSET (1..MaxLastPage) :
        \/ \E e \in CliEntries \cup {NewEntry} :
           \E last \in 1..MaxLastPage :
                InitRun(e, last, S)
        \/ \E e \in ApiEntries :
                InitRun(e, MaxLastPage, S)

\* page numbers around 1 and around the first five-digit page
SamplePages == (1..(1 + Span)) \cup ((Rollover - Span)..(Rollover + Span))

SetMax(S) == CHOOSE m \in S : \A x \in S : x <= m

\* fetch_new_pages on a thread that has grown by at most MaxNew pages since
\* the directory was written
InitRollover ==
    \E last \in SamplePages :
    \E S \in SUBSET SamplePages \ {{}} :
        /\ last - MaxNew <= SetMax(S)
        /\ InitRun(NewEntry, last, S)

Init == InitSmall

Next ==
    \/ Main
    \/ FetchNewPages
    \/ FetchAllConcurrently
    \/ FetchAllLinearly
    \/ CallPagesConcurrently
    \/ CallPagesLinearly
    \/ StartThread
    \/ BeginJoin
    \/ ThreadStep
    \/ JoinThread
    \/ ReturnConcurrent
    \/ LinearFetch
    \/ LinearOpen
    \/ LinearWrite
    \/ ReturnLinear
    \/ Report

Spec == Init /\ [][Next]_vars

\* a direct call of fetch_new_pages on a long thread
NextNew ==
    \/ FetchNewPages
    \/ StartThread
    \/ BeginJoin
    \/ ThreadStep
    \/ JoinThread
    \/ ReturnConcurrent

SpecNew == InitRollover /\ [][NextNew]_vars

---------------------------------------------------------------------------
(* Vocabulary of the properties                                            *)

Elems(seq) == {seq[i] : i \in 1..Len(seq)}

\* the page number a file name carries, read as a number
NamePage(name) == int(FirstDigits(name))

\* the numerically highest page that had a file when the run began
HighestLocal == SetMax({NamePage(n) : n \in DOMAIN dir0})

\* the positions of the log that are page fetches
PageFetches == {i \in 1..Len(netlog) : netlog[i].fn = "fetch_page"}

\* how many times the page's address was fetched
FetchCount(p) ==
    Cardinality({i \in PageFetches :
                    netlog[i].url = get_url_for_page(base_url, p)})

NoFailure == \A i \in 1..Len(netlog) : netlog[i].ok

\* the file of the page holds the body the server gives for it
Persisted(p) ==
    /\ FileName(p) \in DOMAIN dir
    /\ dir[FileName(p)] = Body(p)

\* the directory a strictly sequential fetch-and-save of ps leaves
RECURSIVE SavedLinearly(_, _)
SavedLinearly(d, ps) ==
    IF ps = <<>> THEN d
    ELSE SavedLinearly(WriteFile(d, FileName(Head(ps)), Body(Head(ps))),
                       Tail(ps))

---------------------------------------------------------------------------
(* C2 *)

\* C2: fetch_new_pages on a directory whose highest page is h, with last
\* page L >= h, fetches exactly the pages h..L, each exactly once.
C2_FetchNewExact ==
    (/\ entry.kind = "fetch_new_pages"
     /\ DOMAIN dir0 # {}
     /\ pc = "exit"
     /\ outcome = "ok"
     /\ get_last_page(base_url) >= HighestLocal)
    => /\ \A p \in HighestLocal..get_last_page(base_url) : FetchCount(p) = 1
       /\ \A i \in PageFetches :
            \E p \in HighestLocal..get_last_page(base_url) :
                netlog[i].url = get_url_for_page(base_url, p)

---------------------------------------------------------------------------
(* C3 *)

SavedNow(name) == dir[name] = Body(NamePage(name))

\* C3: among the files written by save_page, the lexicographic order of the
\* file names is the numeric order of their page numbers, so the greatest
\* name is the file of the highest page.
C3_LexOrderIsNumeric ==
    \A a, b \in {n \in DOMAIN dir : SavedNow(n)} :
        StrLess(a, b) <=> NamePage(a) < NamePage(b)

---------------------------------------------------------------------------
(* C4 *)

\* C4: when the fetch of a page failed in one unit, the parallel orchestrator
\* does not end as if it had succeeded.
C4_FailureReported ==
    (/\ entry.kind = "fetch_and_save_pages_concurrently"
     /\ pc = "exit"
     /\ \E t \in 1..Len(threads) : threads[t].st = "raised")
    => outcome # "ok"

---------------------------------------------------------------------------
(* C5 *)

FetchSucceeded(t) ==
    \E i \in PageFetches : netlog[i].url = threads[t].url /\ netlog[i].ok

\* C5: on the step by which fetch_and_save_pages_concurrently returns, every
\* unit it launched has finished and every page whose fetch succeeded has its
\* file written in full.
C5_JoinBarrier ==
    [][(pc = "join" /\ pc' # "join")
        => \A t \in 1..Len(threads) :
            /\ threads[t].st \in {"done", "raised"}
            /\ FetchSucceeded(t) => Persisted(threads[t].page)]_vars

C5_Witness ==
    /\ entry.kind = "fetch_and_save_pages_concurrently"
    /\ pc = "exit"
    /\ outcome = "ok"
    /\ Len(threads) >= 2
    /\ \E t \in 1..Len(threads) : threads[t].st = "done"
    /\ \E t \in 1..Len(threads) : threads[t].st = "raised"

---------------------------------------------------------------------------
(* C6 *)

\* C6: whatever selection of distinct pages fetch_and_save_pages_linearly is
\* given, it requests the pages in strictly increasing page-number order.
C6_LinearIncreasing ==
    (/\ entry.kind = "fetch_and_save_pages_linearly"
     /\ Cardinality(Elems(entry.pages)) = Len(entry.pages))
    => \A i, j \in PageFetches :
        i < j => \E p, q \in Elems(entry.pages) :
                    /\ p < q
                    /\ netlog[i].url = get_url_for_page(base_url, p)
                    /\ netlog[j].url = get_url_for_page(base_url, q)

\* C6 as amended: fetch_and_save_pages_linearly requests the pages in the
\* iteration order of the selection, one at a time: each request is issued
\* when the files of all pages requested before it have been persisted.
C6_LinearInOrder ==
    [][(entry.kind = "fetch_and_save_pages_linearly" /\ netlog' # netlog)
        => /\ Len(netlog) < Len(entry.pages)
           /\ SubSeq(netlog', 1, Len(netlog)) = netlog
           /\ Len(netlog') = Len(netlog) + 1
           /\ netlog'[Len(netlog')].url =
                get_url_for_page(base_url, entry.pages[Len(netlog')])
           /\ \A j \in 1..Len(netlog) : Persisted(entry.pages[j])]_vars

C6_Witness ==
    /\ entry.kind = "fetch_and_save_pages_linearly"
    /\ entry.pages = <<2, 1>>
    /\ outcome = "ok"
    /\ Len(netlog) = 2

---------------------------------------------------------------------------
(* C7 *)

\* C7: with the same server responses and no failure, the parallel mode and
\* the linear mode leave the same files with the same contents, under every
\* interleaving: each leaves what a sequential fetch-and-save leaves.
C7_ModeEquivalence ==
    (pc = "exit" /\ outcome = "ok" /\ NoFailure)
    => /\ entry.kind \in {"fetch_and_save_pages_concurrently",
                          "fetch_and_save_pages_linearly"}
            => dir = SavedLinearly(dir0, entry.pages)
       /\ (entry.kind = "cli" /\ ~entry.only_new_pages)
            => dir = SavedLinearly(dir0, Range(1, lastPage))

C7_Witness ==
    /\ entry.kind = "fetch_and_save_pages_concurrently"
    /\ pc = "exit"
    /\ outcome = "ok"
    /\ NoFailure
    /\ entry.pages = <<2, 1>>
    /\ dir # dir0

---------------------------------------------------------------------------
(* C8 *)

\* C8: fetch_new_pages on a directory that contains no files ends with
\* ValueError, with no request made and no file created or changed.
C8_EmptyDirFails ==
    (/\ DOMAIN dir0 = {}
     /\ \/ entry.kind = "fetch_new_pages"
        \/ entry.kind = "cli" /\ entry.only_new_pages)
    => /\ netlog = <<>>
       /\ dir = dir0
       /\ pc \notin {"main", "idle"} => pc = "exit" /\ outcome = "ValueError"

C8_Witness ==
    /\ DOMAIN dir0 = {}
    /\ entry.kind = "fetch_new_pages"
    /\ outcome = "ValueError"

---------------------------------------------------------------------------
(* C9 *)

\* C9: a command-line run with --only-new-pages, threaded or not, fetches
\* only pages from the highest locally saved page through the last page.
C9_OnlyNewPagesFetched ==
    (/\ entry.kind = "cli"
     /\ entry.only_new_pages
     /\ DOMAIN dir0 # {}
     /\ HighestLocal <= lastPage)
    => \A i \in PageFetches :
        \E p \in HighestLocal..lastPage :
            netlog[i].url = get_url_for_page(base_url, p)

---------------------------------------------------------------------------
(* scraper.py: the page loop of construct_dataframe                        *)

\* how many sampled pages lie at 1.., and how many from 10^ZFillWidth on
ScLow == 0

ScHigh == 1

\* the most message blocks on one page
MaxMsgs == 2

ScPages == (1..ScLow) \cup ((Rollover - 1)..(Rollover - 1 + ScHigh))

\* the message blocks of a page file in document order: block k of page p is
\* <<p, k>>; block `bad` (if not 0) has no data-author attribute
Blocks(p, n, bad) ==
    [k \in 1..n |-> [raw |-> <<p, k>>,
                     author |-> IF k = bad THEN "missing" ELSE "user"]]

PageContents(p) == {Blocks(p, n, bad) : n \in 0..MaxMsgs, bad \in 0..MaxMsgs}

InitScraper ==
    /\ \E S \in SUBSET ScPages :
        \E content \in [S -> UNION {PageContents(p) : p \in S}] :
            /\ \A p \in S : content[p] \in PageContents(p)
            /\ scFiles = [n \in {FileName(p) : p \in S} |->
                            content[CHOOSE p \in S : FileName(p) = n]]
    /\ scQueue = <<>>
    /\ series_list = <<>>
    /\ scPc = "start"
    /\ FnIdle
    /\ MinerIdle
    /\ MsgIdle

\* key=lambda s: re.findall(r"\d+", s.name)[0]: a str, compared as str
SortKey(name) == FirstDigits(name)

\* sorted(Path(path).iterdir(), key=...); the keys of page files are distinct
RECURSIVE SortedByKey(_)
SortedByKey(names) ==
    IF names = {} THEN <<>>
    ELSE LET first == CHOOSE n \in names :
                        \A m \in names : ~StrLess(SortKey(m), SortKey(n))
         IN <<first>> \o SortedByKey(names \ {first})

\* the records of one file: one per message block, in document order, up to
\* the first block whose data-author lookup raises KeyError
RECURSIVE PageRecords(_, _)
PageRecords(blocks, page_num) ==
    IF blocks = <<>> \/ Head(blocks).author = "missing" THEN <<>>
    ELSE <<[raw |-> Head(blocks).raw,
            author |-> Head(blocks).author,
            page_num |-> page_num]>>
         \o PageRecords(Tail(blocks), page_num)

\* the records of a page with the author read by .get("data-author")
PageRecordsDefaultAuthor(blocks, page_num) ==
    [k \in 1..Len(blocks) |->
        [raw |-> blocks[k].raw, author |-> blocks[k].author,
         page_num |-> page_num]]

\* a page processed with its missing authors defaulted
ScPageDefaultAuthor ==
    /\ scPc = "loop"
    /\ scQueue # <<>>
    /\ LET file == Head(scQueue)
           page_num == int(FirstDigits(file))
           blocks == scFiles[file]
       IN series_list' = series_list \o PageRecordsDefaultAuthor(blocks, page_num)
    /\ scPc' = "loop"
    /\ scQueue' = Tail(scQueue)
    /\ UNCHANGED <<scFiles, fnVars, minerVars, msgVars>>

\* the directory is listed and sorted
ScSort ==
    /\ scPc = "start"
    /\ scQueue' = SortedByKey(DOMAIN scFiles)
    /\ scPc' = "loop"
    /\ UNCHANGED <<scFiles, series_list, fnVars, minerVars, msgVars>>

\* one pass of the file loop: every message block of the file
ScPage ==
    /\ scPc = "loop"
    /\ scQueue # <<>>
    /\ LET file == Head(scQueue)
           page_num == int(FirstDigits(file))
           blocks == scFiles[file]
       IN /\ series_list' = series_list \o PageRecords(blocks, page_num)
          /\ scPc' = IF \E k \in 1..Len(blocks) : blocks[k].author = "missing"
                     THEN "KeyError" ELSE "loop"
    /\ scQueue' = Tail(scQueue)
    /\ UNCHANGED <<scFiles, fnVars, minerVars, msgVars>>

\* df = pd.DataFrame(series_list, ...); return df
ScReturn ==
    /\ scPc = "loop"
    /\ scQueue = <<>>
    /\ scPc' = "returned"
    /\ UNCHANGED <<scFiles, scQueue, series_list, fnVars, minerVars, msgVars>>

NextScraper == ScSort \/ ScPage \/ ScReturn

SpecScraper == InitScraper /\ [][NextScraper]_vars

---------------------------------------------------------------------------
(* C10 *)

\* C10: the records construct_dataframe returns are grouped by page in
\* ascending numeric page order, within a page in document order, and each
\* record's page_num is the number of the file it was extracted from.
C10_RecordOrder ==
    scPc = "returned"
    => /\ \A i \in 1..Len(series_list) :
            series_list[i].page_num = series_list[i].raw[1]
       /\ \A i, j \in 1..Len(series_list) :
            i < j =>
                \/ series_list[i].page_num < series_list[j].page_num
                \/ /\ series_list[i].page_num = series_list[j].page_num
                   /\ series_list[i].raw[2] < series_list[j].raw[2]

---------------------------------------------------------------------------
(* scraper.py: the text functions                                          *)

\* string.punctuation (the grave accent written by its code point)
Punctuation ==
    {"!", "\"", "#", "$", "%", "&", "'", "(", ")", "*", "+", ",", "-", ".",
     "/", ":", ";", "<", "=", ">", "?", "@", "[", "\\", "]", "^", "_", "U+0060",
     "{", "|", "}", "~"}

\* the characters \s matches
Whitespace == {" ", "\t", "\n"}

\* the separators of the pattern rf"[\s{string.punctuation}]": inside the
\* character class the backslash of string.punctuation escapes the "]" after
\* it and is no separator itself
IsSeparator(c) == c \in Whitespace \/ (c \in Punctuation /\ c # "\\")

\* re.split(pattern, string_): every separator character ends a token, so
\* adjacent, leading and trailing separators give empty tokens
RECURSIVE re_split(_, _)
re_split(s, token) ==
    IF s = <<>> THEN <<token>>
    ELSE IF IsSeparator(Head(s)) THEN <<token>> \o re_split(Tail(s), <<>>)
    ELSE re_split(Tail(s), Append(token, Head(s)))

\* _count_words(string_) = len(re.split(...))
count_words(string_) == Len(re_split(string_, <<>>))

\* str.upper() on one character: a lowercase letter gives its capital, every
\* other character (capitals, digits, punctuation, letters without case)
\* gives itself
Upper(c) ==
    CASE c = "a" -> "A"
      [] c = "x" -> "X"
      [] c = "o" -> "O"
      [] OTHER -> c

\* str.endswith(suffix)
EndsWith(s, suffix) ==
    /\ Len(suffix) <= Len(s)
    /\ SubSeq(s, Len(s) - Len(suffix) + 1, Len(s)) = suffix

\* punctuational_textual_emotes_and_symbols
TextualEmotes ==
    { <<"-">>, <<"x", "D">>, <<"x", ".", "x">>, <<":", "c">>, <<"o", "7">>,
      <<":", "3">>, <<"q", ".", "q">>, <<":", "0">> }

\* the least word count that complies
MinWords == 5

\* the checks with a word count of MinWords failing too
ComplianceOffByOne(content, word_count_) ==
    [word_count |-> ~(word_count_ <= MinWords),
     first_letter |->
        IF content = <<>> THEN FALSE
        ELSE ~(Upper(content[1]) # content[1]),
     punctuation |->
        IF content = <<>> THEN FALSE
        ELSE IF content[Len(content)] \notin Punctuation
        THEN \E i \in TextualEmotes : EndsWith(content, i)
        ELSE TRUE]

\* the dict compliance after the checks of check_rules_compliance
Compliance(content, word_count_) ==
    [word_count |-> ~(word_count_ < MinWords),
     first_letter |->
        IF content = <<>> THEN FALSE
        ELSE ~(Upper(content[1]) # content[1]),
     punctuation |->
        IF content = <<>> THEN FALSE
        ELSE IF content[Len(content)] \notin Punctuation
        THEN \E i \in TextualEmotes : EndsWith(content, i)
        ELSE TRUE]

\* the keys of compliance in insertion order
ComplianceKeys == <<"word_count", "first_letter", "punctuation">>

\* any(list) on a list of strings: some element is not the empty string
any(list) == \E i \in DOMAIN list : list[i] # ""

\* check_rules_compliance: (not any(broken_rules), broken_rules)
check_rules_compliance(content, word_count_) ==
    LET compliance == Compliance(content, word_count_)
        broken_rules == SelectSeq(ComplianceKeys, LAMBDA key : ~compliance[key])
    IN [is_rules_compliant |-> ~any(broken_rules),
        rulebreak_reasons |-> broken_rules]

---------------------------------------------------------------------------
(* The scraper and stats functions applied to drawn inputs                 *)

\* the longest content drawn
MaxContentLen == 3

\* the largest word count drawn
MaxWordCount == 5

\* a lowercase and a capital letter, letters of the emotes, a digit, a letter
\* without case (the CJK ideograph U+4E2D, written by its code point),
\* punctuation and whitespace
ContentChars == {"a", "A", "x", "D", "o", "7", "U+4E2D", ".", ",", " "}

Contents == UNION {[1..n -> ContentChars] : n \in 0..MaxContentLen}

InitText ==
    /\ fn = "none"
    /\ \E content \in Contents :
       \E word_count \in (MinWords - 1)..MaxWordCount :
            fnArg = [kind |-> "text", content |-> content,
                     word_count |-> word_count]
    /\ fnBase = <<>>
    /\ fnPage = 1
    /\ fnUrl = <<>>
    /\ fnRes = 0
    /\ MinerIdle
    /\ ScraperIdle
    /\ MsgIdle

\* _count_words(content)
ApplyCountWords ==
    /\ fn = "none"
    /\ fnArg.kind = "text"
    /\ fn' = "_count_words"
    /\ fnRes' = count_words(fnArg.content)
    /\ UNCHANGED <<fnArg, fnBase, fnPage, fnUrl, minerVars, scVars, msgVars>>

\* check_rules_compliance(content, word_count)
ApplyCheckRules ==
    /\ fn = "none"
    /\ fnArg.kind = "text"
    /\ fn' = "check_rules_compliance"
    /\ fnRes' = check_rules_compliance(fnArg.content, fnArg.word_count)
    /\ UNCHANGED <<fnArg, fnBase, fnPage, fnUrl, minerVars, scVars, msgVars>>

NextText == ApplyCountWords \/ ApplyCheckRules

SpecText == InitText /\ [][NextText]_vars

\* the tokens of a content that are not empty
Words(content) ==
    LET tokens == re_split(content, <<>>)
    IN {i \in 1..Len(tokens) : tokens[i] # <<>>}

\* C11: the word count of a content is the number of non-empty tokens that
\* splitting it on whitespace and punctuation gives, so that an empty content
\* counts 0 words and trailing punctuation adds no word.
C11_WordCount ==
    fn = "_count_words" => fnRes = Cardinality(Words(fnArg.content))

\* str.isalpha() on one character of ContentChars
IsAlpha(c) == c \in {"a", "A", "x", "D", "o", "U+4E2D"}

\* str.isupper() on one character of ContentChars
IsUpper(c) == c \in {"A", "D"}

\* the reasons that a table of failed checks gives, in the fixed order
Reasons(failed) == SelectSeq(ComplianceKeys, LAMBDA key : failed[key])

\* the punctuation check fails: the content is empty, or it neither ends in
\* a punctuation character nor ends with an allow-listed token
PunctuationFails(content) ==
    \/ content = <<>>
    \/ /\ content[Len(content)] \notin Punctuation
       /\ \A i \in TextualEmotes : ~EndsWith(content, i)

\* C13 as stated: the reasons are exactly the failed checks in the order
\* word_count, first_letter, punctuation, where first_letter fails iff the
\* content is empty or its first character is alphabetic and not uppercase;
\* the compliant flag is true iff there is no reason.
C13_RulesAsStated ==
    fn = "check_rules_compliance" =>
        LET content == fnArg.content
            failed == [word_count |-> fnArg.word_count < 5,
                       first_letter |->
                            \/ content = <<>>
                            \/ IsAlpha(content[1]) /\ ~IsUpper(content[1]),
                       punctuation |-> PunctuationFails(content)]
        IN /\ fnRes.rulebreak_reasons = Reasons(failed)
           /\ fnRes.is_rules_compliant <=> (fnRes.rulebreak_reasons = <<>>)

\* C13, amended: the reasons are exactly the failed checks in the order
\* word_count, first_letter, punctuation, where word_count fails iff the word
\* count is below 5, first_letter fails iff the content is empty or its first
\* character differs from its own uppercase form, and punctuation fails iff
\* the content is empty or neither ends in a punctuation character nor ends
\* with an allow-listed token; the compliant flag is true iff there is no
\* reason.
C13_Rules ==
    fn = "check_rules_compliance" =>
        LET content == fnArg.content
            failed == [word_count |-> fnArg.word_count < 5,
                       first_letter |->
                            \/ content = <<>>
                            \/ Upper(content[1]) # content[1],
                       punctuation |-> PunctuationFails(content)]
        IN /\ fnRes.rulebreak_reasons = Reasons(failed)
           /\ fnRes.is_rules_compliant <=> (fnRes.rulebreak_reasons = <<>>)

\* a content of at least five counted words that starts with a lowercase
\* letter and ends with an allow-listed token fails first_letter only
C13_Witness ==
    /\ fn = "check_rules_compliance"
    /\ fnArg.word_count = 5
    /\ fnArg.content = <<"x", "D">>
    /\ fnRes.rulebreak_reasons = <<"first_letter">>
    /\ ~fnRes.is_rules_compliant

---------------------------------------------------------------------------
(* scraper.py: get_amount_of_likes                                         *)

\* the number of names the reactions widget lists before it counts the rest
LikeThreshold == 3

\* str.strip(): leading and trailing whitespace removed
RECURSIVE LStrip(_)
LStrip(s) ==
    IF s # <<>> /\ Head(s) \in Whitespace THEN LStrip(Tail(s)) ELSE s

Strip(s) == Reversed(LStrip(Reversed(LStrip(s))))

\* Tag.get_text(strip=True): the stripped strings of the children, joined
RECURSIVE get_text(_)
get_text(children) ==
    IF children = <<>> THEN <<>>
    ELSE Strip(Head(children).text) \o get_text(Tail(children))

\* find_all('bdi'): the children that are bdi elements
find_all_bdi(children) == SelectSeq(children, LAMBDA c : c.tag = "bdi")

\* the children left after every bdi is decomposed
DecomposeBdi(children) == SelectSeq(children, LAMBDA c : c.tag # "bdi")

\* re.findall(r"\d+", text) is empty, so that [0] raises IndexError
NoDigits(text) == \A i \in DOMAIN text : ~IsDigit(text[i])

\* get_amount_of_likes with the threshold in place of the counted names
get_amount_of_likes_threshold(likes_bar) ==
    IF ~likes_bar.present THEN 0
    ELSE LET num_likes == Len(find_all_bdi(likes_bar.children))
         IN IF num_likes < LikeThreshold THEN num_likes
            ELSE LET text == get_text(DecomposeBdi(likes_bar.children))
                 IN IF NoDigits(text) THEN LikeThreshold
                    ELSE int(FirstDigits(text)) + LikeThreshold

\* get_amount_of_likes, for the result of message.find("a",
\* class_="reactionsBar-link")
get_amount_of_likes(likes_bar) ==
    IF ~likes_bar.present THEN 0
    ELSE LET num_likes == Len(find_all_bdi(likes_bar.children))
         IN IF num_likes < LikeThreshold THEN num_likes
            ELSE LET text == get_text(DecomposeBdi(likes_bar.children))
                 IN IF NoDigits(text) THEN num_likes
                    ELSE int(FirstDigits(text)) + num_likes

\* the most children of a reactions widget drawn
MaxChildren == 4

\* a user name (with a digit in it), the separator between names, and the
\* texts of overflow counters
WidgetChildren ==
    { [tag |-> "bdi", text |-> <<"u", "1">>],
      [tag |-> "text", text |-> <<",", " ">>],
      [tag |-> "text", text |-> <<" ", "+", "7">>],
      [tag |-> "text", text |-> <<"1", "2", " ">>] }

Widgets ==
    {[present |-> FALSE, children |-> <<>>]} \cup
    {[present |-> TRUE, children |-> c] :
        c \in UNION {[1..n -> WidgetChildren] : n \in 0..MaxChildren}}

InitLikes ==
    /\ fn = "none"
    /\ \E likes_bar \in Widgets : fnArg = [kind |-> "likes", likes_bar |-> likes_bar]
    /\ fnBase = <<>>
    /\ fnPage = 1
    /\ fnUrl = <<>>
    /\ fnRes = 0
    /\ MinerIdle
    /\ ScraperIdle
    /\ MsgIdle

\* get_amount_of_likes(message)
ApplyLikes ==
    /\ fn = "none"
    /\ fnArg.kind = "likes"
    /\ fn' = "get_amount_of_likes"
    /\ fnRes' = get_amount_of_likes(fnArg.likes_bar)
    /\ UNCHANGED <<fnArg, fnBase, fnPage, fnUrl, minerVars, scVars, msgVars>>

NextLikes == ApplyLikes

SpecLikes == InitLikes /\ [][NextLikes]_vars

\* the number of identifier elements of a widget
Identifiers(likes_bar) ==
    Cardinality({i \in DOMAIN likes_bar.children :
                    likes_bar.children[i].tag = "bdi"})

\* the widget's text outside the identifier elements
Remaining(likes_bar) ==
    get_text(SelectSeq(likes_bar.children, LAMBDA c : c.tag = "text"))

---------------------------------------------------------------------------
(* C14 *)

\* some message block of some page file has no data-author attribute
SomeAuthorMissing ==
    \E file \in DOMAIN scFiles :
        \E k \in 1..Len(scFiles[file]) : scFiles[file][k].author = "missing"

\* C14: if any message block of any page file lacks the author attribute,
\* construct_dataframe never returns a dataframe: the run ends with KeyError
\* at the first such block, whatever records were collected before it, and
\* no record carries a defaulted author.
C14_MissingAuthorIsError ==
    /\ SomeAuthorMissing => scPc # "returned"
    /\ SomeAuthorMissing /\ scPc = "loop" => scQueue # <<>>
    /\ \A i \in 1..Len(series_list) : series_list[i].author # "missing"

\* the error is raised after a whole page without a missing author and an
\* earlier block of the failing page were processed
C14_Witness ==
    /\ scPc = "KeyError"
    /\ \E i, j \in 1..Len(series_list) :
        /\ series_list[i].page_num # series_list[j].page_num
        /\ \A k \in 1..Len(scFiles[FileName(series_list[i].page_num)]) :
            scFiles[FileName(series_list[i].page_num)][k].author # "missing"
        /\ \E k \in 1..Len(scFiles[FileName(series_list[j].page_num)]) :
            scFiles[FileName(series_list[j].page_num)][k].author = "missing"

---------------------------------------------------------------------------
(* stats.py: DataExtractor.__init__                                        *)

\* the most records of a dataframe drawn
MaxRecords == 3

\* the largest page number of a record drawn
MaxPageNum == 2

\* the largest start and stop of a range drawn
MaxRangeStop == 3

\* an optional range: None, or range(start, stop)
None == <<>>

range(start, stop) == <<[start |-> start, stop |-> stop]>>

\* bool(r) for an optional range: neither None nor empty
RangeTruthy(r) == r # None /\ r[1].start < r[1].stop

\* the rows of df, each with its label of the RangeIndex and its page_num
Rows(df) == [i \in 1..Len(df) |-> [label |-> i - 1, page_num |-> df[i]]]

\* self.df after DataExtractor.__init__(df, pagerange, postrange); range[0]
\* is start and range[-1] is stop - 1, both ends of .loc included
DataExtractor(df, pagerange, postrange) ==
    IF RangeTruthy(pagerange)
    THEN LET start == pagerange[1].start
             end == pagerange[1].stop - 1
         IN SelectSeq(Rows(df), LAMBDA row :
                            row.page_num >= start /\ row.page_num <= end)
    ELSE IF RangeTruthy(postrange)
    THEN LET start == postrange[1].start
             end == postrange[1].stop - 1
         IN SelectSeq(Rows(df), LAMBDA row :
                            row.label >= start /\ row.label <= end)
    ELSE Rows(df)

Ranges == {range(a, b) : a, b \in 0..MaxRangeStop}

Dataframes == UNION {[1..n -> 1..MaxPageNum] : n \in 0..MaxRecords}

InitExtractor ==
    /\ fn = "none"
    /\ \E df \in Dataframes :
        \/ fnArg = [kind |-> "extractor", df |-> df,
                    pagerange |-> None, postrange |-> None]
        \/ \E r \in Ranges :
            \/ fnArg = [kind |-> "extractor", df |-> df,
                        pagerange |-> r, postrange |-> None]
            \/ fnArg = [kind |-> "extractor", df |-> df,
                        pagerange |-> None, postrange |-> r]
    /\ fnBase = <<>>
    /\ fnPage = 1
    /\ fnUrl = <<>>
    /\ fnRes = 0
    /\ MinerIdle
    /\ ScraperIdle
    /\ MsgIdle

\* DataExtractor(df, pagerange=..., postrange=...)
ApplyExtractor ==
    /\ fn = "none"
    /\ fnArg.kind = "extractor"
    /\ fn' = "DataExtractor"
    /\ fnRes' = DataExtractor(fnArg.df, fnArg.pagerange, fnArg.postrange)
    /\ UNCHANGED <<fnArg, fnBase, fnPage, fnUrl, minerVars, scVars, msgVars>>

NextExtractor == ApplyExtractor

SpecExtractor == InitExtractor /\ [][NextExtractor]_vars

\* C15: with pagerange range(a, b) the extractor keeps exactly the records
\* with a <= page_num < b, for every a and b, so none for an empty range; with
\* postrange range(a, b) it keeps exactly the records at positions a..b-1.
C15_RangeSelection ==
    fn = "DataExtractor" =>
        LET df == fnArg.df
            all == [i \in 1..Len(df) |-> [label |-> i - 1, page_num |-> df[i]]]
        IN /\ fnArg.pagerange # None =>
                fnRes = SelectSeq(all, LAMBDA row :
                            /\ fnArg.pagerange[1].start <= row.page_num
                            /\ row.page_num < fnArg.pagerange[1].stop)
           /\ fnArg.postrange # None =>
                fnRes = SelectSeq(all, LAMBDA row :
                            /\ fnArg.postrange[1].start <= row.label
                            /\ row.label < fnArg.postrange[1].stop)

---------------------------------------------------------------------------
(* C16 *)

\* the pages passed to fetch_and_save_pages_concurrently are pairwise distinct
DistinctPages == Cardinality(Elems(pages)) = Len(pages)

\* fetch_and_save_pages_concurrently is running: from its first thread start
\* to the end of its join loop
InConcurrentCall == pc \in {"spawn", "join"}

\* C16: when the pages passed to fetch_and_save_pages_concurrently are
\* pairwise distinct, no two threads have the same file path, a file a thread
\* has opened stays empty until that thread writes it, and the file of a
\* thread that has written holds the body fetched for that thread's page,
\* under every interleaving, from the first thread start to the end of the
\* join loop.
C16_NoWriteContention ==
    DistinctPages /\ InConcurrentCall =>
        \A t \in 1..Len(threads) :
            /\ \A u \in 1..Len(threads) :
                t # u => FileName(threads[t].page) # FileName(threads[u].page)
            /\ threads[t].st = "opened" =>
                dir[FileName(threads[t].page)] = <<>>
            /\ threads[t].st = "done" =>
                dir[FileName(threads[t].page)] = Body(threads[t].page)

\* two threads of distinct pages hold their files open at the same time
C16_Witness ==
    /\ DistinctPages
    /\ InConcurrentCall
    /\ \E t, u \in 1..Len(threads) :
        /\ t # u
        /\ threads[t].st = "opened"
        /\ threads[u].st = "opened"

---------------------------------------------------------------------------
(* scraper.py: the body of construct_dataframe's message loop              *)

\* A message block is [author, time, content, reactions]: the data-author
\* attribute, the datetime of its time element, the elements below its
\* message-content div in document order, each [tag, attr, text], and the
\* reactions link as get_amount_of_likes reads it.

\* the elements of a message's content that have one of the given tags
find_all(msg, tags) == SelectSeq(msg.content, LAMBDA e : e.tag \in tags)

\* get_message_creation_time
get_message_creation_time(msg) == msg.time

\* has_edited_message
has_edited_message(msg) == find_all(msg, {"message-lastEdit"}) # <<>>

\* get_amount_of_quotes
get_amount_of_quotes(msg) == Len(find_all(msg, {"blockquote"}))

\* get_list_of_quoted_usernames: quote["data-quote"] of every quote
get_list_of_quoted_usernames(msg) ==
    LET quotes == find_all(msg, {"blockquote"})
    IN [i \in 1..Len(quotes) |-> quotes[i].attr]

\* get_amount_of_spoilers
get_amount_of_spoilers(msg) == Len(find_all(msg, {"bbCodeSpoiler"}))

\* get_list_of_mentioned_usernames: uname[1:] of the a.username elements
\* whose stripped text starts with "@"
get_list_of_mentioned_usernames(msg) ==
    LET mentions == SelectSeq(find_all(msg, {"username"}),
                              LAMBDA e : Strip(e.text)[1] = "@")
    IN [i \in 1..Len(mentions) |-> Tail(Strip(mentions[i].text))]

\* get_mapping_of_emojis_and_frequency: alt -> number of occurrences
get_mapping_of_emojis_and_frequency(msg) ==
    LET emojis == find_all(msg, {"smilie"})
    IN [alt \in {emojis[i].attr : i \in 1..Len(emojis)} |->
            Cardinality({i \in 1..Len(emojis) : emojis[i].attr = alt})]

\* a string inserted into the tree
NavigableString(s) == [tag |-> "text", attr |-> <<>>, text |-> s]

AnsehenAuf == <<"A", "n", "s", "e", "h", "e", "n", " ", "a", "u", "f">>

\* useless_tags
UselessTags == {"script", "table", "blockquote", "message-lastEdit"}

\* clean_noisy_tags on the elements: every emoji becomes its alt followed by
\* ".", the "Ansehen auf" paragraphs and the useless tags are decomposed
RECURSIVE CleanElements(_)
CleanElements(es) ==
    IF es = <<>> THEN <<>>
    ELSE LET e == Head(es)
             rest == CleanElements(Tail(es))
         IN IF e.tag = "smilie"
            THEN <<NavigableString(e.attr), NavigableString(<<".">>)>> \o rest
            ELSE IF e.tag = "p" /\ Strip(e.text) = AnsehenAuf THEN rest
            ELSE IF e.tag \in UselessTags THEN rest
            ELSE <<e>> \o rest

\* the message after clean_noisy_tags(message)
clean_noisy_tags(msg) == [msg EXCEPT !.content = CleanElements(msg.content)]

\* the message after get_amount_of_likes(message): at LikeThreshold names or
\* more the bdi elements of the reactions link are decomposed
StripLikes(msg) ==
    IF /\ msg.reactions.present
       /\ Len(find_all_bdi(msg.reactions.children)) >= LikeThreshold
    THEN [msg EXCEPT !.reactions.children = DecomposeBdi(@)]
    ELSE msg

\* the most elements of a message content drawn
MaxElements == 3

\* text, an emoji, a quote, an edit marker, a mention, a spoiler, a media
\* notice and a table
Elements ==
    { NavigableString(<<"H", "i">>),
      [tag |-> "smilie", attr |-> <<":", ")">>, text |-> <<>>],
      [tag |-> "blockquote", attr |-> <<"b", "o", "b">>, text |-> <<"q">>],
      [tag |-> "message-lastEdit", attr |-> <<>>, text |-> <<"e", "d">>],
      [tag |-> "username", attr |-> <<>>, text |-> <<"@", "u">>],
      [tag |-> "bbCodeSpoiler", attr |-> <<>>, text |-> <<"s">>],
      [tag |-> "p", attr |-> <<>>, text |-> AnsehenAuf],
      [tag |-> "table", attr |-> <<>>, text |-> <<"t">>] }

\* no reactions link, one of two names, one of three names and a counter
Reactions ==
    LET bdi == [tag |-> "bdi", text |-> <<"u", "1">>]
    IN { [present |-> FALSE, children |-> <<>>],
         [present |-> TRUE, children |-> <<bdi, bdi>>],
         [present |-> TRUE,
          children |-> <<bdi, bdi, bdi, [tag |-> "text", text |-> <<"+", "7">>]>>] }

MessageBlocks ==
    {[author |-> <<"a", "n", "n">>, time |-> <<"2", "0", "2", "0">>,
      content |-> c, reactions |-> r] :
        c \in UNION {[1..n -> Elements] : n \in 0..MaxElements},
        r \in Reactions}

InitMessage ==
    /\ \E b \in MessageBlocks :
        /\ block = b
        /\ message = b
    /\ unmodified_message = <<>>
    /\ record = <<>>
    /\ msgPc = "copy"
    /\ FnIdle
    /\ MinerIdle
    /\ ScraperIdle

\* the copy taken only after the message was cleaned
CopyMessageAfterCleanup ==
    /\ msgPc = "copy"
    /\ unmodified_message' = clean_noisy_tags(StripLikes(message))
    /\ msgPc' = "identity"
    /\ UNCHANGED <<block, message, record, fnVars, minerVars, scVars>>

\* unmodified_message = copy.copy(message): a copy unconnected to the tree
CopyMessage ==
    /\ msgPc = "copy"
    /\ unmodified_message' = message
    /\ msgPc' = "identity"
    /\ UNCHANGED <<block, message, record, fnVars, minerVars, scVars>>

\* raw (the markup of the copy), author, creation_datetime, is_edited
SnapshotIdentity ==
    /\ msgPc = "identity"
    /\ record' = [raw |-> unmodified_message,
                  author |-> unmodified_message.author,
                  creation_datetime |->
                        get_message_creation_time(unmodified_message),
                  is_edited |-> has_edited_message(unmodified_message)]
    /\ msgPc' = "counts"
    /\ UNCHANGED <<block, message, unmodified_message, fnVars, minerVars,
                   scVars>>

\* quotes, spoilers, mentions and emojis
SnapshotCounts ==
    /\ msgPc = "counts"
    /\ LET mentioned_list ==
                get_list_of_mentioned_usernames(unmodified_message)
           emoji_frequency_mapping ==
                get_mapping_of_emojis_and_frequency(unmodified_message)
       IN record' = record @@
            [quote_count |-> get_amount_of_quotes(unmodified_message),
             quoted_list |-> get_list_of_quoted_usernames(unmodified_message),
             spoiler_count |-> get_amount_of_spoilers(unmodified_message),
             mentioned_list |-> mentioned_list,
             mentions_count |-> Len(mentioned_list),
             emoji_frequency_mapping |-> emoji_frequency_mapping]
    /\ msgPc' = "likes"
    /\ UNCHANGED <<block, message, unmodified_message, fnVars, minerVars,
                   scVars>>

\* like_count = get_amount_of_likes(message)  # modifies
CountLikes ==
    /\ msgPc = "likes"
    /\ record' = record @@
            [like_count |-> get_amount_of_likes(message.reactions)]
    /\ message' = StripLikes(message)
    /\ msgPc' = "clean"
    /\ UNCHANGED <<block, unmodified_message, fnVars, minerVars, scVars>>

\* clean_noisy_tags(message)  # modifies
CleanNoisyTags ==
    /\ msgPc = "clean"
    /\ message' = clean_noisy_tags(message)
    /\ msgPc' = "content"
    /\ UNCHANGED <<block, unmodified_message, record, fnVars, minerVars,
                   scVars>>

\* content, word_count and the rules check, from content_tag, the
\* message-content div of the cleaned message
ExtractContent ==
    /\ msgPc = "content"
    /\ LET content == get_text(message.content)
           word_count == count_words(content)
       IN record' = record @@
            [content |-> content,
             word_count |-> word_count,
             rules |-> check_rules_compliance(content, word_count)]
    /\ msgPc' = "done"
    /\ UNCHANGED <<block, message, unmodified_message, fnVars, minerVars,
                   scVars>>

NextMessage ==
    \/ CopyMessage
    \/ SnapshotIdentity
    \/ SnapshotCounts
    \/ CountLikes
    \/ CleanNoisyTags
    \/ ExtractContent

SpecMessage == InitMessage /\ [][NextMessage]_vars

---------------------------------------------------------------------------
(* C17 *)

\* the fields of the record that are taken from the copy
SnapshotFields(msg) ==
    [raw |-> msg,
     author |-> msg.author,
     creation_datetime |-> msg.time,
     is_edited |-> \E i \in DOMAIN msg.content :
                        msg.content[i].tag = "message-lastEdit",
     quote_count |-> Cardinality({i \in DOMAIN msg.content :
                                    msg.content[i].tag = "blockquote"}),
     quoted_list |-> get_list_of_quoted_usernames(msg),
     spoiler_count |-> get_amount_of_spoilers(msg),
     mentioned_list |-> get_list_of_mentioned_usernames(msg),
     emoji_frequency_mapping |-> get_mapping_of_emojis_and_frequency(msg)]

\* C17: raw, author, creation_datetime, is_edited, quote_count, quoted_list,
\* spoiler_count, mentioned_list and emoji_frequency_mapping of a record are
\* those of the block as the page file holds it, and stay so while like
\* counting and clean_noisy_tags modify the message; content and word_count
\* are those of the cleaned message.
C17_SnapshotBeforeCleanup ==
    /\ msgPc \in {"likes", "clean", "content", "done"} =>
        \A f \in DOMAIN SnapshotFields(block) :
            record[f] = SnapshotFields(block)[f]
    /\ msgPc = "done" =>
        /\ record.content = get_text(clean_noisy_tags(block).content)
        /\ record.word_count = count_words(record.content)

\* a message with a quote and an edit marker was cleaned of both, and its
\* record still counts them
C17_Witness ==
    /\ msgPc = "done"
    /\ get_amount_of_quotes(message) = 0
    /\ ~has_edited_message(message)
    /\ message.reactions # block.reactions
    /\ record.quote_count = 1
    /\ record.is_edited
    /\ record.raw # message

=============================================================================
